---- MODULE Spec2Model ----
(***************************************************************************)
(* Model of the retrieval core of rag_chatbot: the two VectorStore         *)
(* classes (vector_store.py, vector_store_completely_free.py) over a       *)
(* Chroma collection persisted under persist_directory, RAGChain,          *)
(* DocumentProcessor and the Streamlit handlers that drive them.           *)
(*                                                                         *)
(* The Chroma library is pinned by fix_dependencies.py and                 *)
(* install_free_version.py to chromadb 0.4.22 / langchain 0.0.352: a       *)
(* persistent client writes through to the directory, so a Chroma handle   *)
(* is a reference to the collection on disk and persist() adds nothing.    *)
(***************************************************************************)
EXTENDS Integers, Sequences, FiniteSets, TLC

\* ---------------------------------------------------------------- bounds
MaxEntries == 3      \* cap on the number of entries a collection holds
MaxBatch == 2        \* longest list handed to add_documents directly
MaxFiles == 2        \* most files uploaded in one batch
MaxMessages == 4     \* cap on the chat history of a session
MaxTextLen == 4      \* most characters in the documents handed to the splitter
MaxChunkSize == 3    \* largest chunk_size a DocumentProcessor is built with
MaxDocs == 2         \* most documents handed to split_documents at once
MaxUploads == 1      \* most files in one batch where both applications run
MaxIndexed == 2      \* cap on the entries where both applications run

\* ------------------------------------------------------------- constants
DefaultK == 4        \* similarity_search(k=4), get_retriever {"k": 4}
SimpleRagK == 3      \* simple_rag_response(k=3)
PreviewLen == 500    \* page_content[:500]
CliPreviewLen == 300 \* page_content[:300] in cli_chat.py
OpenAIDim == 1536    \* dimension of OpenAIEmbeddings()
LocalDim == 384      \* all-MiniLM-L6-v2, FakeEmbeddings(size=384)

\* Chunks are identified by a number; a query q is nearest to chunk q.
Chunk == {1, 2}
Query == {1, 2}
\* The k a caller passes: <<>> when it leaves k to the default, else <<k>>.
KArgs == {<<>>, <<1>>, <<2>>}

Modules == {"vector_store", "vector_store_completely_free"}

VARIABLES
    module,             \* the VectorStore class the running process imports
    api_key,            \* os.getenv("OPENAI_API_KEY") is set
    persist_directory,  \* "absent" | "empty" | "corrupt" | "db"
    collection,         \* the persisted collection rag_documents
    embeddings,         \* self.embeddings of the current VectorStore
    vectorstore,        \* self.vectorstore: "NoInstance" | "None" | "Chroma"
    qa_chain,           \* the RAGChain built over the store, if any
    session,            \* st.session_state of the Streamlit application
    ret,                \* what the last call gave its caller
    hist,               \* history of the current instance, for the properties
    chat_loop           \* chat_loop of cli_chat.py: is it running, its last_result

vars == <<module, api_key, persist_directory, collection, embeddings,
          vectorstore, qa_chain, session, ret, hist, chat_loop>>

\* ------------------------------------------------------------- utilities
Min(a, b) == IF a <= b THEN a ELSE b

Abs(a) == IF a >= 0 THEN a ELSE 0 - a

SeqsUpTo(S, n) == UNION {[1..m -> S] : m \in 0..n}

\* The sequences of m distinct positions of 1..n.
Arrangements(n, m) == {s \in [1..m -> 1..n] : \A i, j \in 1..m : i # j => s[i] # s[j]}

\* ------------------------------------------------- the Chroma collection
NoCollection == [exists |-> FALSE, dim |-> 0, entries |-> <<>>]

EmptyCollection == [exists |-> TRUE, dim |-> 0, entries |-> <<>>]

Dim(emb) == IF emb = "OpenAIEmbeddings" THEN OpenAIDim ELSE LocalDim

\* Chroma(collection_name, embedding_function, persist_directory): opens the
\* database under the directory (creating directory and database when there
\* is none) and gets or creates the collection. A corrupt database cannot
\* be opened.
Chroma(dir, coll) ==
    IF dir = "corrupt"
    THEN [raised |-> TRUE, dir |-> dir, coll |-> coll]
    ELSE [raised |-> FALSE, dir |-> "db",
          coll |-> IF coll.exists THEN coll ELSE EmptyCollection]

\* Mutant: an index that takes vectors of any dimension.
Chroma_add_documents_any_dimension(coll, emb, embedOK, documents) ==
    IF ~embedOK THEN [exc |-> "EmbeddingError", coll |-> coll]
    ELSE IF ~coll.exists THEN [exc |-> "CollectionNotFound", coll |-> coll]
    ELSE [exc |-> "none",
          coll |-> [exists |-> TRUE, dim |-> Dim(emb),
                    entries |-> coll.entries \o documents]]

\* Chroma.add_documents: embeds the texts, then appends them. The first
\* batch fixes the dimension of the collection.
Chroma_add_documents(coll, emb, embedOK, documents) ==
    IF ~embedOK THEN [exc |-> "EmbeddingError", coll |-> coll]
    ELSE IF ~coll.exists THEN [exc |-> "CollectionNotFound", coll |-> coll]
    ELSE IF coll.dim # 0 /\ coll.dim # Dim(emb)
    THEN [exc |-> "InvalidDimensionException", coll |-> coll]
    ELSE [exc |-> "none",
          coll |-> [exists |-> TRUE, dim |-> Dim(emb),
                    entries |-> coll.entries \o documents]]

\* Rank of an entry for a query: nearer first, earlier inserted first.
Dist(q, c) == Abs(q - c)

Before(e, q, i) ==
    Cardinality({j \in 1..Len(e) :
        \/ Dist(q, e[j]) < Dist(q, e[i])
        \/ Dist(q, e[j]) = Dist(q, e[i]) /\ j < i})

TopK(e, q, k) ==
    [r \in 1..Min(k, Len(e)) |-> e[CHOOSE i \in 1..Len(e) : Before(e, q, i) = r - 1]]

\* Chroma.similarity_search: the set of outcomes. FakeEmbeddings draws a
\* fresh random vector for every text, so its ranking is arbitrary.
Chroma_similarity_search(coll, emb, embedOK, query, k) ==
    IF ~embedOK THEN {[exc |-> "EmbeddingError", docs |-> <<>>]}
    ELSE IF ~coll.exists THEN {[exc |-> "CollectionNotFound", docs |-> <<>>]}
    ELSE IF coll.entries = <<>> THEN {[exc |-> "none", docs |-> <<>>]}
    ELSE IF coll.dim # Dim(emb)
    THEN {[exc |-> "InvalidDimensionException", docs |-> <<>>]}
    ELSE IF emb = "FakeEmbeddings"
    THEN {[exc |-> "none", docs |-> [r \in 1..Len(s) |-> coll.entries[s[r]]]] :
            s \in Arrangements(Len(coll.entries), Min(k, Len(coll.entries)))}
    ELSE {[exc |-> "none", docs |-> TopK(coll.entries, query, k)]}

\* Chroma.delete_collection: drops the collection from the database; the
\* directory and the database file stay.
Chroma_delete_collection(coll) ==
    IF ~coll.exists THEN [exc |-> "CollectionNotFound", coll |-> coll]
    ELSE [exc |-> "none", coll |-> NoCollection]

\* ------------------------------------------------------ the VectorStore
\* A world w is the instance and the disk it works on.
W == [embeddings |-> embeddings, vectorstore |-> vectorstore,
      dir |-> persist_directory, coll |-> collection]

\* What a call gives back: the world after it, the exception it raised
\* ("none" when it returned), its value, and whether the index raised.
Out(w, exc, val, indexRaised) ==
    [w |-> w, exc |-> exc, val |-> val, indexRaised |-> indexRaised]

\* Values that stand for "nothing": no chain, no dict, no text.
NoChain == [bound |-> FALSE, k |-> 0]

NoDict == [answer |-> <<>>, source_documents |-> <<>>, success |-> FALSE]

NoText == [kind |-> "none", parts |-> <<>>, note |-> FALSE]

\* Mutant: the constructor never opens what the directory holds.
_load_or_create_vectorstore_never_loads(w) == [w EXCEPT !.vectorstore = "None"]

\* VectorStore._load_or_create_vectorstore (vector_store.py)
_load_or_create_vectorstore(w) ==
    IF w.dir # "absent"
    THEN LET c == Chroma(w.dir, w.coll)
         IN  IF c.raised
             THEN [w EXCEPT !.vectorstore = "None"]
             ELSE [w EXCEPT !.vectorstore = "Chroma", !.dir = c.dir, !.coll = c.coll]
    ELSE [w EXCEPT !.vectorstore = "None"]

\* VectorStore.__init__ (vector_store.py). The sentence-transformers model
\* is loaded in the constructor; when it cannot be loaded the constructor
\* raises and no instance exists.
VectorStore_init(w, key, embedding_model, modelLoads) ==
    LET emb == IF embedding_model = "openai" /\ key
               THEN "OpenAIEmbeddings"
               ELSE "SentenceTransformerEmbeddings"
    IN  IF emb = "SentenceTransformerEmbeddings" /\ ~modelLoads
        THEN Out([w EXCEPT !.embeddings = "none", !.vectorstore = "NoInstance"],
                 "ModelLoadError", <<>>, FALSE)
        ELSE Out(_load_or_create_vectorstore(
                     [w EXCEPT !.embeddings = emb, !.vectorstore = "None"]),
                 "none", <<>>, FALSE)

\* Chroma.from_documents: the constructor, then add_documents on it.
Chroma_from_documents(w, embedOK, documents) ==
    LET c == Chroma(w.dir, w.coll)
    IN  IF c.raised
        THEN [exc |-> "DatabaseError", dir |-> w.dir, coll |-> w.coll]
        ELSE LET a == Chroma_add_documents(c.coll, w.embeddings, embedOK, documents)
             IN  [exc |-> a.exc, dir |-> c.dir, coll |-> a.coll]

\* Mutant: add_documents without its check for an empty list.
add_documents_no_check(w, documents, embedOK) ==
    IF w.vectorstore = "None"
    THEN LET f == Chroma_from_documents(w, embedOK, documents)
         IN  IF f.exc # "none"
             THEN Out([w EXCEPT !.dir = f.dir, !.coll = f.coll], f.exc, <<>>, TRUE)
             ELSE Out([w EXCEPT !.vectorstore = "Chroma", !.dir = f.dir, !.coll = f.coll],
                      "none", <<>>, FALSE)
    ELSE LET a == Chroma_add_documents(w.coll, w.embeddings, embedOK, documents)
         IN  IF a.exc # "none"
             THEN Out(w, a.exc, <<>>, TRUE)
             ELSE Out([w EXCEPT !.coll = a.coll], "none", <<>>, FALSE)

\* VectorStore.add_documents (vector_store.py)
add_documents(w, documents, embedOK) ==
    IF documents = <<>>
    THEN Out(w, "ValueError", <<>>, FALSE)
    ELSE IF w.vectorstore = "None"
    THEN LET f == Chroma_from_documents(w, embedOK, documents)
         IN  IF f.exc # "none"
             THEN Out([w EXCEPT !.dir = f.dir, !.coll = f.coll], f.exc, <<>>, TRUE)
             ELSE Out([w EXCEPT !.vectorstore = "Chroma", !.dir = f.dir, !.coll = f.coll],
                      "none", <<>>, FALSE)
    ELSE LET a == Chroma_add_documents(w.coll, w.embeddings, embedOK, documents)
         IN  IF a.exc # "none"
             THEN Out(w, a.exc, <<>>, TRUE)
             ELSE Out([w EXCEPT !.coll = a.coll], "none", <<>>, FALSE)

\* The k parameter with its default.
EffectiveK(kArg) == IF kArg = <<>> THEN DefaultK ELSE kArg[1]

\* VectorStore.similarity_search (vector_store.py): the set of outcomes.
similarity_search(w, query, kArg, embedOK) ==
    IF w.vectorstore = "None"
    THEN {Out(w, "none", <<>>, FALSE)}
    ELSE {IF r.exc # "none"
          THEN Out(w, r.exc, <<>>, TRUE)
          ELSE Out(w, "none", r.docs, FALSE) :
            r \in Chroma_similarity_search(w.coll, w.embeddings, embedOK,
                                           query, EffectiveK(kArg))}

\* VectorStore.get_retriever (both modules): the k the retriever is bound to.
get_retriever(w, search_kwargs) ==
    IF w.vectorstore = "None"
    THEN Out(w, "ValueError", <<>>, FALSE)
    ELSE Out(w, "none", <<EffectiveK(search_kwargs)>>, FALSE)

\* Mutant: delete_collection keeps the handle of the deleted collection.
delete_collection_keeps_handle(w) ==
    IF w.vectorstore # "None"
    THEN LET d == Chroma_delete_collection(w.coll)
         IN  IF d.exc # "none"
             THEN Out(w, d.exc, <<>>, TRUE)
             ELSE Out([w EXCEPT !.coll = d.coll], "none", <<>>, FALSE)
    ELSE Out(w, "none", <<>>, FALSE)

\* VectorStore.delete_collection (vector_store.py)
delete_collection(w) ==
    IF w.vectorstore # "None"
    THEN LET d == Chroma_delete_collection(w.coll)
         IN  IF d.exc # "none"
             THEN Out(w, d.exc, <<>>, TRUE)
             ELSE Out([w EXCEPT !.coll = d.coll, !.vectorstore = "None"],
                      "none", <<>>, FALSE)
    ELSE Out(w, "none", <<>>, FALSE)

\* ------------------------------- the VectorStore of the free module
\* VectorStore._load_or_create_vectorstore (vector_store_completely_free.py)
_load_or_create_vectorstore_free(w) ==
    IF w.dir # "absent" /\ w.dir # "empty"
    THEN LET c == Chroma(w.dir, w.coll)
         IN  IF c.raised
             THEN [w EXCEPT !.vectorstore = "None"]
             ELSE [w EXCEPT !.vectorstore = "Chroma", !.dir = c.dir, !.coll = c.coll]
    ELSE [w EXCEPT !.vectorstore = "None"]

\* VectorStore.__init__ (vector_store_completely_free.py)
VectorStore_init_free(w, modelLoads) ==
    LET emb == IF modelLoads THEN "HuggingFaceEmbeddings" ELSE "FakeEmbeddings"
    IN  Out(_load_or_create_vectorstore_free(
                [w EXCEPT !.embeddings = emb, !.vectorstore = "None"]),
            "none", <<>>, FALSE)

\* VectorStore.add_documents (vector_store_completely_free.py)
add_documents_free(w, documents, embedOK) ==
    IF documents = <<>>
    THEN Out(w, "ValueError", <<>>, FALSE)
    ELSE IF w.vectorstore = "None"
    THEN LET f == Chroma_from_documents(w, embedOK, documents)
         IN  IF f.exc # "none"
             THEN Out([w EXCEPT !.dir = f.dir, !.coll = f.coll], f.exc, <<>>, TRUE)
             ELSE Out([w EXCEPT !.vectorstore = "Chroma", !.dir = f.dir, !.coll = f.coll],
                      "none", <<>>, FALSE)
    ELSE LET a == Chroma_add_documents(w.coll, w.embeddings, embedOK, documents)
         IN  IF a.exc # "none"
             THEN Out(w, a.exc, <<>>, TRUE)
             ELSE Out([w EXCEPT !.coll = a.coll], "none", <<>>, FALSE)

\* VectorStore.similarity_search (vector_store_completely_free.py): an
\* exception of the index is printed and an empty list returned.
similarity_search_free(w, query, kArg, embedOK) ==
    IF w.vectorstore = "None"
    THEN {Out(w, "none", <<>>, FALSE)}
    ELSE {IF r.exc # "none"
          THEN Out(w, "none", <<>>, TRUE)
          ELSE Out(w, "none", r.docs, FALSE) :
            r \in Chroma_similarity_search(w.coll, w.embeddings, embedOK,
                                           query, EffectiveK(kArg))}

\* VectorStore.delete_collection (vector_store_completely_free.py): the
\* collection, then the directory tree; an exception is printed, not raised.
delete_collection_free(w) ==
    LET d == IF w.vectorstore # "None"
             THEN Chroma_delete_collection(w.coll)
             ELSE [exc |-> "none", coll |-> w.coll]
    IN  IF d.exc # "none"
        THEN Out(w, "none", <<>>, TRUE)
        ELSE Out([w EXCEPT !.vectorstore = "None", !.dir = "absent",
                           !.coll = NoCollection],
                 "none", <<>>, FALSE)

\* ------------------------------------------------------------- RAGChain
\* What the generation provider does with one request.
LLMOutcomes == {"ok", "AuthenticationError", "RateLimitError",
                "APIConnectionError", "MalformedResponse"}

\* RAGChain._setup_chain: the retriever of the store with its default k,
\* inside a RetrievalQA chain; any failure becomes a ValueError.
_setup_chain(w) ==
    LET r == get_retriever(w, <<>>)
    IN  IF r.exc # "none"
        THEN [exc |-> "ValueError", qa_chain |-> NoChain]
        ELSE [exc |-> "none", qa_chain |-> [bound |-> TRUE, k |-> r.val[1]]]

\* RAGChain.__init__
RAGChain_init(w, key) ==
    IF ~key
    THEN [exc |-> "ValueError", qa_chain |-> NoChain]
    ELSE _setup_chain(w)

\* self.qa_chain({"query": question}): the retriever searches the
\* collection, then the provider answers from what was retrieved.
RetrievalQA(w, chain, question, embedOK, llm) ==
    {IF r.exc # "none" THEN [exc |-> r.exc, result |-> <<>>, source_documents |-> <<>>]
     ELSE IF llm # "ok" THEN [exc |-> llm, result |-> <<>>, source_documents |-> <<>>]
     ELSE [exc |-> "none", result |-> <<"answer", question>>,
           source_documents |-> r.docs] :
        r \in Chroma_similarity_search(w.coll, w.embeddings, embedOK, question, chain.k)}

\* Mutant: query without its try/except.
RAGChain_query_no_except(w, chain, question, embedOK, llm) ==
    {IF c.exc = "none"
     THEN [exc |-> "none", raised |-> FALSE,
           dict |-> [answer |-> c.result, source_documents |-> c.source_documents,
                     success |-> TRUE]]
     ELSE [exc |-> c.exc, raised |-> TRUE, dict |-> NoDict] :
        c \in RetrievalQA(w, chain, question, embedOK, llm)}

\* RAGChain.query: the dict returned; raised tells that the chain raised.
RAGChain_query(w, chain, question, embedOK, llm) ==
    {IF c.exc = "none"
     THEN [exc |-> "none", raised |-> FALSE,
           dict |-> [answer |-> c.result, source_documents |-> c.source_documents,
                     success |-> TRUE]]
     ELSE [exc |-> "none", raised |-> TRUE,
           dict |-> [answer |-> <<"Error processing query: ", c.exc>>,
                     source_documents |-> <<>>, success |-> FALSE]] :
        c \in RetrievalQA(w, chain, question, embedOK, llm)}

\* -------------------------------------------------- retrieval-only mode
\* len(page_content) of each chunk: chunk 2 is longer than the preview.
ContentLen == [c \in Chunk |-> IF c = 1 THEN 300 ELSE 800]

\* "**Source i:**", page_content[:500] and "..." when it was cut.
ContextPart(i, doc) ==
    [source |-> i, chunk |-> doc, shown |-> Min(ContentLen[doc], PreviewLen),
     ellipsis |-> ContentLen[doc] > PreviewLen]

\* The k of simple_rag_response with its default.
SimpleK(kArg) == IF kArg = <<>> THEN SimpleRagK ELSE kArg[1]

\* Mutant: simple_rag_response without its check for no documents.
simple_rag_response_no_check(w, question, kArg, embedOK) ==
    {[kind |-> "context",
      parts |-> [i \in 1..Len(o.val) |-> ContextPart(i, o.val[i])],
      note |-> TRUE] :
        o \in similarity_search_free(w, question, <<SimpleK(kArg)>>, embedOK)}

\* Mutant: simple_rag_response that cuts the previews without marking it.
simple_rag_response_no_ellipsis(w, question, kArg, embedOK) ==
    IF w.vectorstore = "NoInstance"
    THEN {[NoText EXCEPT !.kind = "error"]}
    ELSE {IF o.exc # "none" THEN [NoText EXCEPT !.kind = "error"]
          ELSE IF o.val = <<>> THEN [NoText EXCEPT !.kind = "not_found"]
          ELSE [kind |-> "context",
                parts |-> [i \in 1..Len(o.val) |->
                            [ContextPart(i, o.val[i]) EXCEPT !.ellipsis = FALSE]],
                note |-> TRUE] :
            o \in similarity_search_free(w, question, <<SimpleK(kArg)>>, embedOK)}

\* simple_rag_response (app_local.py): the str returned. A vector_store
\* that is None has no similarity_search, which the except turns into the
\* error text, as it does any exception of the search. The text of kind
\* "context" is the header and the parts in the order retrieved; note tells
\* that it ends with the note that this is retrieval only.
simple_rag_response(w, question, kArg, embedOK) ==
    IF w.vectorstore = "NoInstance"
    THEN {[NoText EXCEPT !.kind = "error"]}
    ELSE {IF o.exc # "none" THEN [NoText EXCEPT !.kind = "error"]
          ELSE IF o.val = <<>> THEN [NoText EXCEPT !.kind = "not_found"]
          ELSE [kind |-> "context",
                parts |-> [i \in 1..Len(o.val) |-> ContextPart(i, o.val[i])],
                note |-> TRUE] :
            o \in similarity_search_free(w, question, <<SimpleK(kArg)>>, embedOK)}

\* ---------------------------------------------------- DocumentProcessor
\* A file: its name's last four characters and, page by page, the chunks
\* the splitter cuts its text into (a scanned page has no text). kind is
\* what os.path says of the path.
UploadedFile ==
    {[name |-> "a.txt", kind |-> "file", suffix |-> ".txt", pages |-> << <<1>> >>],
     [name |-> "b.pdf", kind |-> "file", suffix |-> ".pdf", pages |-> << <<2>> >>],
     [name |-> "scan.pdf", kind |-> "file", suffix |-> ".pdf", pages |-> << <<>> >>],
     [name |-> "C.PDF", kind |-> "file", suffix |-> ".PDF", pages |-> << <<2>> >>]}

\* The files a path can name: those a user can upload and one of a type
\* the uploader does not offer.
SourceFile ==
    UploadedFile
        \cup {[name |-> "notes.md", kind |-> "file", suffix |-> ".md",
               pages |-> << <<1>> >>]}

\* The paths handed to DocumentProcessor.process_documents: a file, a
\* directory with its files in listing order, or a path that names nothing.
SourcePath ==
    SourceFile
        \cup {[name |-> "documents", kind |-> "dir", files |-> files] :
                files \in SeqsUpTo(SourceFile, MaxFiles)}
        \cup {[name |-> "nowhere", kind |-> "missing"]}

RECURSIVE Flatten(_)
Flatten(ss) == IF ss = <<>> THEN <<>> ELSE Head(ss) \o Flatten(Tail(ss))

\* Mutant: load_documents that reads any other file as text.
load_documents_any_text(file) == [exc |-> "none", documents |-> file.pages]

\* DocumentProcessor.load_documents
load_documents(file) ==
    IF file.suffix = ".pdf" THEN [exc |-> "none", documents |-> file.pages]
    ELSE IF file.suffix = ".txt" THEN [exc |-> "none", documents |-> file.pages]
    ELSE [exc |-> "ValueError", documents |-> <<>>]

\* DocumentProcessor.split_documents: the chunks of each document, in order.
split_documents(documents) == Flatten(documents)

\* DocumentProcessor.load_directory: the pages of the files matching
\* **/*.pdf, then of those matching **/*.txt; other files are not looked at.
load_directory(dir) ==
    LET pages(suffix) ==
            Flatten([i \in 1..Len(dir.files) |->
                        IF dir.files[i].suffix = suffix
                        THEN dir.files[i].pages ELSE <<>>])
    IN  [exc |-> "none", documents |-> pages(".pdf") \o pages(".txt")]

\* DocumentProcessor.process_documents
DocumentProcessor_process_documents(source_path) ==
    LET l == IF source_path.kind = "file" THEN load_documents(source_path)
             ELSE IF source_path.kind = "dir" THEN load_directory(source_path)
             ELSE [exc |-> "ValueError", documents |-> <<>>]
    IN  IF l.exc # "none"
        THEN [exc |-> l.exc, chunks |-> <<>>]
        ELSE [exc |-> "none", chunks |-> split_documents(l.documents)]

\* ------------------------------------ RecursiveCharacterTextSplitter
\* The splitter DocumentProcessor.__init__ builds (langchain 0.0.352), with
\* its defaults: these separators, keep_separator and strip_whitespace. A
\* text is a sequence of characters, a separator too ("" is <<>>).
Char == {"a", "b", " ", "\n"}

Whitespace == {" ", "\n"}

Separators == << <<"\n", "\n">>, <<"\n">>, <<" ">>, <<>> >>

\* re.search(separator, text)
Contains(text, sep) ==
    \E i \in 1..Len(text) :
        i + Len(sep) - 1 <= Len(text) /\ SubSeq(text, i, i + Len(sep) - 1) = sep

\* The text cut before every match of the separator, leftmost first and
\* not overlapping: start is where the piece being read began, p where the
\* search goes on.
RECURSIVE Pieces(_, _, _, _)
Pieces(text, sep, start, p) ==
    IF p + Len(sep) - 1 > Len(text)
    THEN <<SubSeq(text, start, Len(text))>>
    ELSE IF SubSeq(text, p, p + Len(sep) - 1) = sep
    THEN <<SubSeq(text, start, p - 1)>> \o Pieces(text, sep, p, p + Len(sep))
    ELSE Pieces(text, sep, start, p + 1)

\* _split_text_with_regex with keep_separator: each piece after a match
\* begins with the separator; "" splits into characters; empty pieces go.
_split_text_with_regex(text, sep) ==
    IF sep = <<>>
    THEN [i \in 1..Len(text) |-> <<text[i]>>]
    ELSE SelectSeq(Pieces(text, sep, 1, 1), LAMBDA piece : piece # <<>>)

\* str.strip()
RECURSIVE StripLeft(_)
StripLeft(text) ==
    IF text # <<>> /\ Head(text) \in Whitespace THEN StripLeft(Tail(text)) ELSE text

RECURSIVE StripRight(_)
StripRight(text) ==
    IF text # <<>> /\ text[Len(text)] \in Whitespace
    THEN StripRight(SubSeq(text, 1, Len(text) - 1))
    ELSE text

Strip(text) == StripRight(StripLeft(text))

\* _join_docs with the separator "": the pieces joined and stripped; no
\* chunk when nothing is left.
_join_docs(current_doc) ==
    LET text == Strip(Flatten(current_doc))
    IN  IF text = <<>> THEN <<>> ELSE <<text>>

\* total of _merge_splits: the length of the pieces held.
Total(current_doc) == Len(Flatten(current_doc))

\* The while loop of _merge_splits: pieces are dropped from the front while
\* more than chunk_overlap is held, or the next piece still does not fit.
RECURSIVE PopFront(_, _, _, _)
PopFront(current_doc, len, chunk_size, chunk_overlap) ==
    IF \/ Total(current_doc) > chunk_overlap
       \/ (Total(current_doc) + len > chunk_size /\ Total(current_doc) > 0)
    THEN PopFront(Tail(current_doc), len, chunk_size, chunk_overlap)
    ELSE current_doc

\* The for loop of _merge_splits from piece i on, current_doc in hand.
RECURSIVE MergeFrom(_, _, _, _, _)
MergeFrom(splits, i, current_doc, chunk_size, chunk_overlap) ==
    IF i > Len(splits)
    THEN _join_docs(current_doc)
    ELSE LET d == splits[i]
             full == /\ Total(current_doc) + Len(d) > chunk_size
                     /\ current_doc # <<>>
         IN  (IF full THEN _join_docs(current_doc) ELSE <<>>)
             \o MergeFrom(splits, i + 1,
                          Append(IF full
                                 THEN PopFront(current_doc, Len(d), chunk_size,
                                               chunk_overlap)
                                 ELSE current_doc, d),
                          chunk_size, chunk_overlap)

_merge_splits(splits, chunk_size, chunk_overlap) ==
    MergeFrom(splits, 1, <<>>, chunk_size, chunk_overlap)

\* The separator _split_text works with: the first of the list that is ""
\* or occurs in the text.
FirstSeparator(text, separators) ==
    CHOOSE i \in 1..Len(separators) :
        /\ separators[i] = <<>> \/ Contains(text, separators[i])
        /\ \A j \in 1..(i - 1) :
              separators[j] # <<>> /\ ~Contains(text, separators[j])

RECURSIVE _split_text(_, _, _, _)
RECURSIVE SplitLoop(_, _, _, _, _, _)
\* The loop of _split_text over the pieces from piece i on: pieces shorter
\* than chunk_size are collected and merged, any other is split with the
\* separators that are left, or kept whole when none is.
SplitLoop(splits, i, _good_splits, new_separators, chunk_size, chunk_overlap) ==
    LET merged == IF _good_splits # <<>>
                  THEN _merge_splits(_good_splits, chunk_size, chunk_overlap)
                  ELSE <<>>
    IN  IF i > Len(splits) THEN merged
        ELSE IF Len(splits[i]) < chunk_size
        THEN SplitLoop(splits, i + 1, Append(_good_splits, splits[i]),
                       new_separators, chunk_size, chunk_overlap)
        ELSE merged
             \o (IF new_separators = <<>>
                 THEN <<splits[i]>>
                 ELSE _split_text(splits[i], new_separators, chunk_size,
                                  chunk_overlap))
             \o SplitLoop(splits, i + 1, <<>>, new_separators, chunk_size,
                          chunk_overlap)

\* RecursiveCharacterTextSplitter._split_text
_split_text(text, separators, chunk_size, chunk_overlap) ==
    LET i == FirstSeparator(text, separators)
        new_separators == IF separators[i] = <<>> THEN <<>>
                          ELSE SubSeq(separators, i + 1, Len(separators))
    IN  SplitLoop(_split_text_with_regex(text, separators[i]), 1, <<>>,
                  new_separators, chunk_size, chunk_overlap)

\* self.text_splitter.split_documents(documents): the chunks of each
\* document in turn, each with the metadata of its document (here the
\* position of the document in the list).
text_splitter_split_documents(documents, chunk_size, chunk_overlap) ==
    Flatten([d \in 1..Len(documents) |->
        LET chunks == _split_text(documents[d], Separators, chunk_size, chunk_overlap)
        IN  [c \in 1..Len(chunks) |-> [page_content |-> chunks[c], document |-> d]]])

\* ------------------------------------------------------------ app_local
\* The files of a batch up to the first that raises, and whether one did.
BatchChunks(processed) ==
    Flatten([i \in 1..Len(processed) |-> processed[i].chunks])

\* process_documents (app_local.py). The VectorStore is local to the call
\* and becomes the store of the session only at the end; whatever raises
\* on the way is shown as one error and 0 is returned.
process_documents_local(w, sess, uploaded_files, modelLoads) ==
    LET v == VectorStore_init_free(w, modelLoads)
        processed == [i \in 1..Len(uploaded_files) |->
                        DocumentProcessor_process_documents(uploaded_files[i])]
        bad == {i \in 1..Len(uploaded_files) : processed[i].exc # "none"}
        all_chunks == BatchChunks(processed)
        disk(x) == [w EXCEPT !.dir = x.dir, !.coll = x.coll]
    IN  IF bad # {}
        THEN LET i == CHOOSE i \in bad : \A j \in bad : i <= j
             IN  [w |-> disk(v.w), session |-> sess, n |-> 0, added |-> <<>>,
                  indexRaised |-> FALSE,
                  errors |-> <<[msg |-> "Error processing documents",
                                file |-> uploaded_files[i].name]>>]
        ELSE IF all_chunks = <<>>
        THEN [w |-> disk(v.w), session |-> sess, n |-> 0, added |-> <<>>,
              indexRaised |-> FALSE,
              errors |-> <<[msg |-> "No content could be extracted", file |-> ""]>>]
        ELSE LET a == add_documents_free(v.w, all_chunks, TRUE)
             IN  IF a.exc # "none"
                 THEN [w |-> disk(a.w), session |-> sess, n |-> 0, added |-> <<>>,
                       indexRaised |-> TRUE,
                       errors |-> <<[msg |-> "Error processing documents", file |-> ""]>>]
                 ELSE [w |-> a.w,
                       session |-> [sess EXCEPT !.vector_store = TRUE,
                                                !.documents_processed = TRUE],
                       n |-> Len(all_chunks), added |-> all_chunks,
                       indexRaised |-> FALSE, errors |-> <<>>]

\* reset_system (app_local.py): the session is cleared; the collection is not.
reset_system_local(w, sess) ==
    [w |-> [w EXCEPT !.embeddings = "none", !.vectorstore = "NoInstance"],
     session |-> [sess EXCEPT !.vector_store = FALSE, !.documents_processed = FALSE,
                              !.messages = <<>>]]

\* ------------------------------------------------------------------ app
\* metadata["source"] of a chunk: the path the loader read it from.
MetadataSource == [c \in Chunk |-> IF c = 1 THEN "a.txt" ELSE "b.pdf"]

\* Mutant: process_documents that marks the documents processed before the
\* index has taken them.
process_documents_app_flag_first(w, sess, chain, key, uploaded_files, modelLoads, embedOK) ==
    LET v == VectorStore_init(w, key, "openai", modelLoads)
        processed == [i \in 1..Len(uploaded_files) |->
                        DocumentProcessor_process_documents(uploaded_files[i])]
        bad == {i \in 1..Len(uploaded_files) : processed[i].exc # "none"}
        all_chunks == BatchChunks(processed)
        failed(x, added, indexRaised, msg, file) ==
            [w |-> [w EXCEPT !.dir = x.dir, !.coll = x.coll],
             session |-> sess, qa_chain |-> chain, n |-> 0, added |-> added,
             indexRaised |-> indexRaised,
             errors |-> <<[msg |-> msg, file |-> file]>>]
    IN  IF v.exc # "none"
        THEN failed(v.w, <<>>, FALSE, "Error processing documents", "")
        ELSE IF bad # {}
        THEN LET i == CHOOSE i \in bad : \A j \in bad : i <= j
             IN  failed(v.w, <<>>, FALSE, "Error processing documents",
                        uploaded_files[i].name)
        ELSE IF all_chunks = <<>>
        THEN failed(v.w, <<>>, FALSE, "No content could be extracted", "")
        ELSE LET a == add_documents(v.w, all_chunks, embedOK)
             IN  IF a.exc # "none"
                 THEN [failed(a.w, <<>>, TRUE, "Error processing documents", "")
                          EXCEPT !.session.documents_processed = TRUE]
                 ELSE LET c == RAGChain_init(a.w, key)
                      IN  IF c.exc # "none"
                          THEN failed(a.w, all_chunks, FALSE,
                                      "Error processing documents", "")
                          ELSE [w |-> a.w,
                                session |-> [sess EXCEPT !.rag_chain = TRUE,
                                                         !.documents_processed = TRUE],
                                qa_chain |-> c.qa_chain,
                                n |-> Len(all_chunks), added |-> all_chunks,
                                indexRaised |-> FALSE, errors |-> <<>>]

\* process_documents (app.py). As in app_local.py, but the store is a
\* VectorStore of vector_store.py and a RAGChain is built over it, which
\* becomes the chain of the session.
process_documents_app(w, sess, chain, key, uploaded_files, modelLoads, embedOK) ==
    LET v == VectorStore_init(w, key, "openai", modelLoads)
        processed == [i \in 1..Len(uploaded_files) |->
                        DocumentProcessor_process_documents(uploaded_files[i])]
        bad == {i \in 1..Len(uploaded_files) : processed[i].exc # "none"}
        all_chunks == BatchChunks(processed)
        failed(x, added, indexRaised, msg, file) ==
            [w |-> [w EXCEPT !.dir = x.dir, !.coll = x.coll],
             session |-> sess, qa_chain |-> chain, n |-> 0, added |-> added,
             indexRaised |-> indexRaised,
             errors |-> <<[msg |-> msg, file |-> file]>>]
    IN  IF v.exc # "none"
        THEN failed(v.w, <<>>, FALSE, "Error processing documents", "")
        ELSE IF bad # {}
        THEN LET i == CHOOSE i \in bad : \A j \in bad : i <= j
             IN  failed(v.w, <<>>, FALSE, "Error processing documents",
                        uploaded_files[i].name)
        ELSE IF all_chunks = <<>>
        THEN failed(v.w, <<>>, FALSE, "No content could be extracted", "")
        ELSE LET a == add_documents(v.w, all_chunks, embedOK)
             IN  IF a.exc # "none"
                 THEN failed(a.w, <<>>, TRUE, "Error processing documents", "")
                 ELSE LET c == RAGChain_init(a.w, key)
                      IN  IF c.exc # "none"
                          THEN failed(a.w, all_chunks, FALSE,
                                      "Error processing documents", "")
                          ELSE [w |-> a.w,
                                session |-> [sess EXCEPT !.rag_chain = TRUE,
                                                         !.documents_processed = TRUE],
                                qa_chain |-> c.qa_chain,
                                n |-> Len(all_chunks), added |-> all_chunks,
                                indexRaised |-> FALSE, errors |-> <<>>]

\* Mutant: reset_system that leaves documents_processed as it is.
reset_system_app_keeps_flag(w, sess, key, modelLoads) ==
    LET v == VectorStore_init(w, key, "openai", modelLoads)
        d == IF v.exc # "none" THEN v ELSE delete_collection(v.w)
    IN  [w |-> [w EXCEPT !.embeddings = "none", !.vectorstore = "NoInstance",
                         !.dir = d.w.dir, !.coll = d.w.coll],
         session |-> [sess EXCEPT !.rag_chain = FALSE, !.messages = <<>>],
         qa_chain |-> NoChain]

\* reset_system (app.py): the session is cleared, then the collection is
\* deleted through a new VectorStore; whatever that raises is passed over.
reset_system_app(w, sess, key, modelLoads) ==
    LET v == VectorStore_init(w, key, "openai", modelLoads)
        d == IF v.exc # "none" THEN v ELSE delete_collection(v.w)
    IN  [w |-> [w EXCEPT !.embeddings = "none", !.vectorstore = "NoInstance",
                         !.dir = d.w.dir, !.coll = d.w.coll],
         session |-> [sess EXCEPT !.rag_chain = FALSE,
                                  !.documents_processed = FALSE,
                                  !.messages = <<>>],
         qa_chain |-> NoChain]

\* Mutant: a chat input that records no assistant message for a failed query.
chat_input_messages_drops_failure(prompt, result) ==
    IF result.success
    THEN <<[role |-> "user", content |-> <<"prompt", prompt>>],
           [role |-> "assistant", content |-> result.answer,
            sources |-> result.source_documents]>>
    ELSE <<[role |-> "user", content |-> <<"prompt", prompt>>]>>

\* The two messages a chat input of app.py appends for the dict result of
\* RAGChain.query.
chat_input_messages(prompt, result) ==
    <<[role |-> "user", content |-> <<"prompt", prompt>>],
      [role |-> "assistant", content |-> result.answer,
       sources |-> IF result.success THEN result.source_documents ELSE <<>>]>>

\* What app.py shows under an answer for each source document: its rank,
\* page_content[:500] with "..." when cut, and "From:" metadata["source"].
sources_shown(result) ==
    IF ~result.success THEN <<>>
    ELSE [i \in 1..Len(result.source_documents) |->
            LET doc == result.source_documents[i]
            IN  [source |-> i, chunk |-> doc,
                 shown |-> Min(ContentLen[doc], PreviewLen),
                 ellipsis |-> ContentLen[doc] > PreviewLen,
                 from |-> MetadataSource[doc]]]

\* ----------------------------------------------------------- cli_chat.py
\* str.lower(), letter by letter.
UpperCase == <<"A", "B", "C", "D", "E", "F", "G", "H", "I", "J", "K", "L", "M",
               "N", "O", "P", "Q", "R", "S", "T", "U", "V", "W", "X", "Y", "Z">>

LowerCase == <<"a", "b", "c", "d", "e", "f", "g", "h", "i", "j", "k", "l", "m",
               "n", "o", "p", "q", "r", "s", "t", "u", "v", "w", "x", "y", "z">>

ToLower(c) ==
    IF \E i \in 1..Len(UpperCase) : UpperCase[i] = c
    THEN LowerCase[CHOOSE i \in 1..Len(UpperCase) : UpperCase[i] = c]
    ELSE c

lower(text) == [i \in 1..Len(text) |-> ToLower(text[i])]

\* The words chat_loop compares the lowered line with.
QuitWords == {<<"q", "u", "i", "t">>, <<"e", "x", "i", "t">>, <<"b", "y", "e">>}

HelpWord == <<"h", "e", "l", "p">>

SourcesWord == <<"s", "o", "u", "r", "c", "e", "s">>

\* The query of the model a question stands for: the chunk it is nearest to.
QueryOf(question) == IF ToLower(Head(question)) = "a" THEN 1 ELSE 2

\* What 'sources' prints for each source document of last_result: its rank,
\* page_content[:300] with "..." when cut, and "From:" metadata["source"].
cli_sources(last_result) ==
    [i \in 1..Len(last_result[1].source_documents) |->
        LET doc == last_result[1].source_documents[i]
        IN  [source |-> i, chunk |-> doc,
             shown |-> Min(ContentLen[doc], CliPreviewLen),
             ellipsis |-> ContentLen[doc] > CliPreviewLen,
             from |-> MetadataSource[doc]]]

\* What one pass of the loop gives: does the loop go on, last_result after
\* it, the query handed to rag_chain.query (0 when it was not called), the
\* dict it returned, and what was printed.
Pass(running, last_result, query, dict, printed, sources) ==
    [running |-> running, last_result |-> last_result, query |-> query,
     dict |-> dict, printed |-> printed, sources |-> sources]

\* Mutant: last_result kept only when the query succeeded.
chat_loop_pass_keeps_success(w, chain, last_result, in, embedOK, llm) ==
    IF in.exc = "KeyboardInterrupt"
    THEN {Pass(FALSE, last_result, 0, NoDict, "Goodbye", <<>>)}
    ELSE IF in.exc # "none"
    THEN {Pass(TRUE, last_result, 0, NoDict, "Error", <<>>)}
    ELSE LET question == Strip(in.line)
         IN  IF lower(question) \in QuitWords
             THEN {Pass(FALSE, last_result, 0, NoDict, "Goodbye", <<>>)}
             ELSE IF lower(question) = HelpWord
             THEN {Pass(TRUE, last_result, 0, NoDict, "help", <<>>)}
             ELSE IF lower(question) = SourcesWord
             THEN IF last_result # <<>> /\ last_result[1].source_documents # <<>>
                  THEN {Pass(TRUE, last_result, 0, NoDict, "sources",
                             cli_sources(last_result))}
                  ELSE {Pass(TRUE, last_result, 0, NoDict, "No sources available", <<>>)}
             ELSE IF question = <<>>
             THEN {Pass(TRUE, last_result, 0, NoDict, "nothing", <<>>)}
             ELSE {Pass(TRUE, IF o.dict.success THEN <<o.dict>> ELSE last_result,
                        QueryOf(question), o.dict,
                        IF o.dict.success THEN "answer" ELSE "failure", <<>>) :
                     o \in RAGChain_query(w, chain, QueryOf(question), embedOK, llm)}

\* One pass of the while loop of chat_loop: in is what input() gave, a line
\* or the exception it raised. rag_chain.query never raises, so the
\* handler of Exception is reached from input() alone.
chat_loop_pass(w, chain, last_result, in, embedOK, llm) ==
    IF in.exc = "KeyboardInterrupt"
    THEN {Pass(FALSE, last_result, 0, NoDict, "Goodbye", <<>>)}
    ELSE IF in.exc # "none"
    THEN {Pass(TRUE, last_result, 0, NoDict, "Error", <<>>)}
    ELSE LET question == Strip(in.line)
         IN  IF lower(question) \in QuitWords
             THEN {Pass(FALSE, last_result, 0, NoDict, "Goodbye", <<>>)}
             ELSE IF lower(question) = HelpWord
             THEN {Pass(TRUE, last_result, 0, NoDict, "help", <<>>)}
             ELSE IF lower(question) = SourcesWord
             THEN IF last_result # <<>> /\ last_result[1].source_documents # <<>>
                  THEN {Pass(TRUE, last_result, 0, NoDict, "sources",
                             cli_sources(last_result))}
                  ELSE {Pass(TRUE, last_result, 0, NoDict, "No sources available", <<>>)}
             ELSE IF question = <<>>
             THEN {Pass(TRUE, last_result, 0, NoDict, "nothing", <<>>)}
             ELSE {Pass(TRUE, <<o.dict>>, QueryOf(question), o.dict,
                        IF o.dict.success THEN "answer" ELSE "failure", <<>>) :
                     o \in RAGChain_query(w, chain, QueryOf(question), embedOK, llm)}

\* setup_rag_system: the chunks of the path, a new VectorStore, the chunks
\* added to it, a RAGChain over it; any exception gives None, and what was
\* written before it stays written.
setup_rag_system(w, key, document_path, embedOK) ==
    LET p == DocumentProcessor_process_documents(document_path)
        v == VectorStore_init(w, key, "openai", TRUE)
        a == add_documents(v.w, p.chunks, embedOK)
        c == RAGChain_init(a.w, key)
    IN  IF p.exc # "none" THEN [w |-> w, exc |-> p.exc, qa_chain |-> NoChain]
        ELSE IF v.exc # "none" THEN [w |-> v.w, exc |-> v.exc, qa_chain |-> NoChain]
        ELSE IF a.exc # "none" THEN [w |-> a.w, exc |-> a.exc, qa_chain |-> NoChain]
        ELSE [w |-> a.w, exc |-> c.exc, qa_chain |-> c.qa_chain]

\* main of cli_chat.py up to the call of chat_loop: exit is the status it
\* exits with at once, "none" when the loop starts.
cli_main(w, key, document_path, embedOK) ==
    IF ~key THEN [w |-> w, exit |-> "no key", qa_chain |-> NoChain]
    ELSE IF document_path.kind = "missing"
    THEN [w |-> w, exit |-> "no path", qa_chain |-> NoChain]
    ELSE LET s == setup_rag_system(w, key, document_path, embedOK)
         IN  [w |-> s.w, exit |-> IF s.exc = "none" THEN "none" ELSE "setup failed",
              qa_chain |-> s.qa_chain]

\* ----------------------------------------------------------- the state
NoSession == [vector_store |-> FALSE, rag_chain |-> FALSE,
              documents_processed |-> FALSE, messages |-> <<>>]

\* What input() gives when nothing was typed.
NoInput == [exc |-> "none", line |-> <<>>]

\* type is the Python type of the value returned: val holds a list, dict a
\* dict, text a str, n an int.
NoRet == [op |-> "none", exc |-> "none", type |-> "NoneType", val |-> <<>>,
          dict |-> NoDict, text |-> NoText, n |-> 0, indexRaised |-> FALSE,
          docs |-> <<>>, query |-> 0, k |-> 0, files |-> <<>>, errors |-> <<>>,
          documents |-> <<>>, chunk_size |-> 0, chunk_overlap |-> 0, chunks |-> <<>>,
          shown |-> <<>>, input |-> NoInput]

NoSnap == [valid |-> FALSE, emb |-> "none", reopened |-> FALSE, res |-> <<>>]

\* reset tells that reset_system has run on this directory, since holds the
\* chunks indexed after it.
NoHist == [afterDelete |-> FALSE, opened |-> "none", writes |-> 0, snap |-> NoSnap,
          reset |-> FALSE, since |-> {}]

\* No chat loop: cli_chat.py is not running. last_result is <<>> for None,
\* else <<dict>>; recent is what the latest call of rag_chain.query by the
\* loop returned, <<>> before the first.
NoChatLoop == [running |-> FALSE, last_result |-> <<>>, recent |-> <<>>]

\* What similarity_search of the running module gives on world w.
Search(w, query, kArg, embedOK) ==
    IF module = "vector_store"
    THEN similarity_search(w, query, kArg, embedOK)
    ELSE similarity_search_free(w, query, kArg, embedOK)

\* The answers of the store in world w to every query and k, the provider up.
Answers(w) ==
    [q \in Query, kArg \in KArgs |->
        {<<o.exc, o.val>> : o \in Search(w, q, kArg, TRUE)}]

\* The provider of the instance can fail only when it is the remote one.
EmbedOutcomes(emb) == IF emb = "OpenAIEmbeddings" THEN BOOLEAN ELSE {TRUE}

SetWorld(w) ==
    /\ embeddings' = w.embeddings
    /\ vectorstore' = w.vectorstore
    /\ persist_directory' = w.dir
    /\ collection' = w.coll

\* A process that has just started: no instance yet, nothing called.
InitProcess ==
    /\ module \in Modules
    /\ api_key \in BOOLEAN
    /\ persist_directory \in {"absent", "empty", "corrupt"}
    /\ collection = NoCollection
    /\ embeddings = "none"
    /\ vectorstore = "NoInstance"
    /\ qa_chain = NoChain
    /\ session = NoSession
    /\ hist = NoHist
    /\ chat_loop = NoChatLoop

Init == InitProcess /\ ret = NoRet

\* VectorStore(...) of vector_store.py
Construct ==
    /\ module = "vector_store"
    /\ vectorstore = "NoInstance"
    /\ \E embedding_model \in {"openai", "local"}, modelLoads \in BOOLEAN :
        LET o == VectorStore_init(W, api_key, embedding_model, modelLoads)
        IN  /\ SetWorld(o.w)
            /\ ret' = [NoRet EXCEPT !.op = "VectorStore", !.exc = o.exc]
            /\ hist' = [hist EXCEPT !.afterDelete = FALSE,
                                    !.opened = persist_directory,
                                    !.writes = 0,
                                    !.snap.reopened = hist.snap.valid]
    /\ UNCHANGED <<chat_loop, module, api_key, qa_chain, session>>

\* VectorStore(...) of vector_store_completely_free.py
ConstructFree ==
    /\ module = "vector_store_completely_free"
    /\ vectorstore = "NoInstance"
    /\ \E modelLoads \in BOOLEAN :
        LET o == VectorStore_init_free(W, modelLoads)
        IN  /\ SetWorld(o.w)
            /\ ret' = [NoRet EXCEPT !.op = "VectorStore", !.exc = o.exc]
            /\ hist' = [hist EXCEPT !.afterDelete = FALSE,
                                    !.opened = persist_directory,
                                    !.writes = 0,
                                    !.snap.reopened = hist.snap.valid]
    /\ UNCHANGED <<chat_loop, module, api_key, qa_chain, session>>

\* The history after a call of add_documents that gave o.
HistAfterAdd(o, documents) ==
    [hist EXCEPT !.afterDelete = FALSE,
                 !.writes = IF documents = <<>> THEN @ ELSE Min(@ + 1, 2),
                 !.snap = IF o.exc = "none"
                          THEN [valid |-> TRUE, emb |-> o.w.embeddings,
                                reopened |-> FALSE, res |-> Answers(o.w)]
                          ELSE IF documents = <<>> THEN @ ELSE NoSnap]

AddDocuments ==
    /\ module = "vector_store"
    /\ vectorstore # "NoInstance"
    /\ \E documents \in SeqsUpTo(Chunk, MaxBatch), embedOK \in EmbedOutcomes(embeddings) :
        /\ Len(collection.entries) + Len(documents) <= MaxEntries
        /\ LET o == add_documents(W, documents, embedOK)
           IN  /\ SetWorld(o.w)
               /\ ret' = [NoRet EXCEPT !.op = "add_documents", !.exc = o.exc,
                                       !.indexRaised = o.indexRaised, !.docs = documents]
               /\ hist' = HistAfterAdd(o, documents)
    /\ UNCHANGED <<chat_loop, module, api_key, qa_chain, session>>

AddDocumentsFree ==
    /\ module = "vector_store_completely_free"
    /\ vectorstore # "NoInstance"
    /\ \E documents \in SeqsUpTo(Chunk, MaxBatch), embedOK \in EmbedOutcomes(embeddings) :
        /\ Len(collection.entries) + Len(documents) <= MaxEntries
        /\ LET o == add_documents_free(W, documents, embedOK)
           IN  /\ SetWorld(o.w)
               /\ ret' = [NoRet EXCEPT !.op = "add_documents", !.exc = o.exc,
                                       !.indexRaised = o.indexRaised, !.docs = documents]
               /\ hist' = HistAfterAdd(o, documents)
    /\ UNCHANGED <<chat_loop, module, api_key, qa_chain, session>>

SimilaritySearch ==
    /\ module = "vector_store"
    /\ vectorstore # "NoInstance"
    /\ \E query \in Query, kArg \in KArgs, embedOK \in EmbedOutcomes(embeddings) :
        \E o \in similarity_search(W, query, kArg, embedOK) :
            /\ SetWorld(o.w)
            /\ ret' = [NoRet EXCEPT !.op = "similarity_search", !.exc = o.exc,
                                    !.type = IF o.exc = "none" THEN "list" ELSE "NoneType",
                                    !.val = o.val, !.indexRaised = o.indexRaised,
                                    !.query = query, !.k = EffectiveK(kArg)]
    /\ UNCHANGED <<chat_loop, module, api_key, qa_chain, session, hist>>

SimilaritySearchFree ==
    /\ module = "vector_store_completely_free"
    /\ vectorstore # "NoInstance"
    /\ \E query \in Query, kArg \in KArgs, embedOK \in EmbedOutcomes(embeddings) :
        \E o \in similarity_search_free(W, query, kArg, embedOK) :
            /\ SetWorld(o.w)
            /\ ret' = [NoRet EXCEPT !.op = "similarity_search", !.exc = o.exc,
                                    !.type = IF o.exc = "none" THEN "list" ELSE "NoneType",
                                    !.val = o.val, !.indexRaised = o.indexRaised,
                                    !.query = query, !.k = EffectiveK(kArg)]
    /\ UNCHANGED <<chat_loop, module, api_key, qa_chain, session, hist>>

GetRetriever ==
    /\ vectorstore # "NoInstance"
    /\ \E search_kwargs \in KArgs :
        LET o == get_retriever(W, search_kwargs)
        IN  ret' = [NoRet EXCEPT !.op = "get_retriever", !.exc = o.exc, !.val = o.val,
                                !.type = IF o.exc = "none" THEN "retriever" ELSE "NoneType"]
    /\ UNCHANGED <<chat_loop, module, api_key, persist_directory, collection, embeddings,
                   vectorstore, qa_chain, session, hist>>

DeleteCollection ==
    /\ module = "vector_store"
    /\ vectorstore # "NoInstance"
    /\ LET o == delete_collection(W)
       IN  /\ SetWorld(o.w)
           /\ ret' = [NoRet EXCEPT !.op = "delete_collection", !.exc = o.exc,
                                   !.indexRaised = o.indexRaised]
           /\ hist' = [hist EXCEPT !.afterDelete = (o.exc = "none"), !.snap = NoSnap]
    /\ UNCHANGED <<chat_loop, module, api_key, qa_chain, session>>

DeleteCollectionFree ==
    /\ module = "vector_store_completely_free"
    /\ vectorstore # "NoInstance"
    /\ LET o == delete_collection_free(W)
       IN  /\ SetWorld(o.w)
           /\ ret' = [NoRet EXCEPT !.op = "delete_collection", !.exc = o.exc,
                                   !.indexRaised = o.indexRaised]
           /\ hist' = [hist EXCEPT !.afterDelete = (o.exc = "none"), !.snap = NoSnap]
    /\ UNCHANGED <<chat_loop, module, api_key, qa_chain, session>>

\* The process ends (a crash or an exit) and another one is started, of
\* either application, with or without the credential in its environment.
\* The directory is all that survives.
Restart ==
    /\ vectorstore # "NoInstance"
    /\ module' \in Modules
    /\ api_key' \in BOOLEAN
    /\ embeddings' = "none"
    /\ vectorstore' = "NoInstance"
    /\ qa_chain' = NoChain
    /\ session' = NoSession
    /\ ret' = [NoRet EXCEPT !.op = "restart"]
    /\ hist' = [NoHist EXCEPT !.snap = hist.snap]
    /\ UNCHANGED <<chat_loop, persist_directory, collection>>

\* RAGChain(vector_store) over the current store
RAGChainInit ==
    /\ module = "vector_store"
    /\ vectorstore # "NoInstance"
    /\ LET o == RAGChain_init(W, api_key)
       IN  /\ qa_chain' = IF o.exc = "none" THEN o.qa_chain ELSE qa_chain
           /\ ret' = [NoRet EXCEPT !.op = "RAGChain", !.exc = o.exc]
    /\ UNCHANGED <<chat_loop, module, api_key, persist_directory, collection, embeddings,
                   vectorstore, session, hist>>

RAGChainQuery ==
    /\ qa_chain.bound
    /\ \E question \in Query, embedOK \in EmbedOutcomes(embeddings), llm \in LLMOutcomes :
        \E o \in RAGChain_query(W, qa_chain, question, embedOK, llm) :
            ret' = [NoRet EXCEPT !.op = "query", !.exc = o.exc,
                                 !.type = IF o.exc = "none" THEN "dict" ELSE "NoneType",
                                 !.dict = o.dict, !.indexRaised = o.raised,
                                 !.query = question, !.k = qa_chain.k]
    /\ UNCHANGED <<chat_loop, module, api_key, persist_directory, collection, embeddings,
                   vectorstore, qa_chain, session, hist>>

\* simple_rag_response called on the current store
SimpleRagResponse ==
    /\ module = "vector_store_completely_free"
    /\ vectorstore # "NoInstance"
    /\ \E question \in Query, kArg \in KArgs :
        \E t \in simple_rag_response(W, question, kArg, TRUE) :
            ret' = [NoRet EXCEPT !.op = "simple_rag_response", !.type = "str",
                                 !.text = t, !.query = question, !.k = SimpleK(kArg)]
    /\ UNCHANGED <<chat_loop, module, api_key, persist_directory, collection, embeddings,
                   vectorstore, qa_chain, session, hist>>

\* The files a user can hand to the uploader in one batch.
Batches == UNION {[1..m -> UploadedFile] : m \in 1..MaxFiles}

\* The same, where the two applications run one after the other.
Uploads == UNION {[1..m -> UploadedFile] : m \in 1..MaxUploads}

\* The history after process_documents indexed the chunks added.
HistAfterProcess(added) ==
    [NoHist EXCEPT !.reset = hist.reset,
                   !.since = IF hist.reset
                             THEN hist.since \cup {added[i] : i \in 1..Len(added)}
                             ELSE {}]

\* "Process Documents" in app_local.py
ProcessDocumentsLocalOf(batches, maxEntries) ==
    /\ module = "vector_store_completely_free"
    /\ \E uploaded_files \in batches, modelLoads \in BOOLEAN :
        LET o == process_documents_local(W, session, uploaded_files, modelLoads)
        IN  /\ Len(o.w.coll.entries) <= maxEntries
            /\ SetWorld(o.w)
            /\ session' = o.session
            /\ ret' = [NoRet EXCEPT !.op = "process_documents", !.type = "int",
                                    !.n = o.n, !.docs = o.added,
                                    !.indexRaised = o.indexRaised,
                                    !.files = uploaded_files, !.errors = o.errors]
            /\ hist' = HistAfterProcess(o.added)
    /\ UNCHANGED <<chat_loop, module, api_key, qa_chain>>

ProcessDocumentsLocal == ProcessDocumentsLocalOf(Batches, MaxEntries)

ProcessDocumentsLocalUploads == ProcessDocumentsLocalOf(Uploads, MaxIndexed)

\* "Reset System" in app_local.py
ResetSystemLocal ==
    /\ module = "vector_store_completely_free"
    /\ LET o == reset_system_local(W, session)
       IN  /\ SetWorld(o.w)
           /\ session' = o.session
    /\ ret' = [NoRet EXCEPT !.op = "reset_system"]
    /\ hist' = [NoHist EXCEPT !.reset = TRUE]
    /\ UNCHANGED <<chat_loop, module, api_key, qa_chain>>

\* A chat input in app_local.py: shown once documents are processed.
ChatInputLocal ==
    /\ module = "vector_store_completely_free"
    /\ session.documents_processed
    /\ Len(session.messages) + 2 <= MaxMessages
    /\ \E prompt \in Query :
        \E t \in simple_rag_response(W, prompt, <<>>, TRUE) :
            /\ session' = [session EXCEPT !.messages =
                    @ \o <<[role |-> "user", content |-> [NoText EXCEPT !.kind = "prompt"]],
                           [role |-> "assistant", content |-> t]>>]
            /\ ret' = [NoRet EXCEPT !.op = "chat_input", !.type = "str", !.text = t,
                                    !.query = prompt, !.k = SimpleK(<<>>),
                                    !.shown = t.parts]
    /\ UNCHANGED <<chat_loop, module, api_key, persist_directory, collection, embeddings,
                   vectorstore, qa_chain, hist>>

\* "Clear Chat" in app_local.py
ClearChatLocal ==
    /\ module = "vector_store_completely_free"
    /\ session.documents_processed
    /\ session' = [session EXCEPT !.messages = <<>>]
    /\ ret' = [NoRet EXCEPT !.op = "clear_chat"]
    /\ UNCHANGED <<chat_loop, module, api_key, persist_directory, collection, embeddings,
                   vectorstore, qa_chain, hist>>

\* The process of either application ends and app_local.py is started.
RestartLocal ==
    /\ module' = "vector_store_completely_free"
    /\ api_key' \in BOOLEAN
    /\ embeddings' = "none"
    /\ vectorstore' = "NoInstance"
    /\ qa_chain' = NoChain
    /\ session' = NoSession
    /\ ret' = [NoRet EXCEPT !.op = "restart"]
    /\ hist' = [NoHist EXCEPT !.reset = hist.reset, !.since = hist.since]
    /\ UNCHANGED <<chat_loop, persist_directory, collection>>

\* "Process Documents" in app.py; main returns before the sidebar when
\* check_api_key fails, and with the key set no local model is loaded.
ProcessDocumentsApp ==
    /\ module = "vector_store"
    /\ api_key
    /\ \E uploaded_files \in Uploads, embedOK \in BOOLEAN :
        LET o == process_documents_app(W, session, qa_chain, api_key,
                                       uploaded_files, TRUE, embedOK)
        IN  /\ Len(o.w.coll.entries) <= MaxIndexed
            /\ SetWorld(o.w)
            /\ session' = o.session
            /\ qa_chain' = o.qa_chain
            /\ ret' = [NoRet EXCEPT !.op = "process_documents", !.type = "int",
                                    !.n = o.n, !.docs = o.added,
                                    !.indexRaised = o.indexRaised,
                                    !.files = uploaded_files, !.errors = o.errors]
            /\ hist' = HistAfterProcess(o.added)
    /\ UNCHANGED <<chat_loop, module, api_key>>

\* "Reset System" in app.py
ResetSystemApp ==
    /\ module = "vector_store"
    /\ api_key
    /\ LET o == reset_system_app(W, session, api_key, TRUE)
       IN  /\ SetWorld(o.w)
           /\ session' = o.session
           /\ qa_chain' = o.qa_chain
    /\ ret' = [NoRet EXCEPT !.op = "reset_system"]
    /\ hist' = [NoHist EXCEPT !.reset = TRUE]
    /\ UNCHANGED <<chat_loop, module, api_key>>

\* The provider during a chat: it answers or it fails; RAGChain.query turns
\* every failure into the same kind of dict.
ChatLLMOutcomes == {"ok", "RateLimitError"}

\* A chat input in app.py: shown once documents are processed. The user
\* message is appended before the query; a rag_chain that is None has no
\* query, and the script run ends there with an AttributeError.
ChatInputApp ==
    /\ module = "vector_store"
    /\ api_key
    /\ session.documents_processed
    /\ Len(session.messages) + 2 <= MaxMessages
    /\ \E prompt \in Query :
        IF ~session.rag_chain
        THEN /\ session' = [session EXCEPT !.messages =
                    Append(@, [role |-> "user", content |-> <<"prompt", prompt>>])]
             /\ ret' = [NoRet EXCEPT !.op = "chat_input", !.exc = "AttributeError",
                                     !.query = prompt]
        ELSE \E embedOK \in EmbedOutcomes(embeddings), llm \in ChatLLMOutcomes :
                \E o \in RAGChain_query(W, qa_chain, prompt, embedOK, llm) :
                    /\ session' = [session EXCEPT !.messages =
                            @ \o chat_input_messages(prompt, o.dict)]
                    /\ ret' = [NoRet EXCEPT !.op = "chat_input", !.exc = o.exc,
                                            !.type = "dict", !.dict = o.dict,
                                            !.indexRaised = o.raised,
                                            !.query = prompt, !.k = qa_chain.k,
                                            !.shown = sources_shown(o.dict)]
    /\ UNCHANGED <<chat_loop, module, api_key, persist_directory, collection, embeddings,
                   vectorstore, qa_chain, hist>>

\* "Clear Chat" in app.py
ClearChatApp ==
    /\ module = "vector_store"
    /\ api_key
    /\ session.documents_processed
    /\ session' = [session EXCEPT !.messages = <<>>]
    /\ ret' = [NoRet EXCEPT !.op = "clear_chat"]
    /\ UNCHANGED <<chat_loop, module, api_key, persist_directory, collection, embeddings,
                   vectorstore, qa_chain, hist>>

\* The process ends and one of the two applications is started, with or
\* without the credential in its environment.
RestartApps ==
    /\ module' \in Modules
    /\ api_key' \in BOOLEAN
    /\ embeddings' = "none"
    /\ vectorstore' = "NoInstance"
    /\ qa_chain' = NoChain
    /\ session' = NoSession
    /\ ret' = [NoRet EXCEPT !.op = "restart"]
    /\ hist' = [NoHist EXCEPT !.reset = hist.reset, !.since = hist.since]
    /\ UNCHANGED <<chat_loop, persist_directory, collection>>

\* processor.load_documents(file_path) on the path of a file
LoadDocuments ==
    /\ \E file \in SourceFile :
        LET l == load_documents(file)
        IN  ret' = [NoRet EXCEPT !.op = "load_documents", !.exc = l.exc,
                                 !.type = IF l.exc = "none" THEN "list" ELSE "NoneType",
                                 !.val = l.documents, !.files = <<file>>]
    /\ UNCHANGED <<chat_loop, module, api_key, persist_directory, collection, embeddings,
                   vectorstore, qa_chain, session, hist>>

\* processor.process_documents(source_path)
ProcessPath ==
    /\ \E source_path \in SourcePath :
        LET r == DocumentProcessor_process_documents(source_path)
        IN  ret' = [NoRet EXCEPT !.op = "DocumentProcessor.process_documents",
                                 !.exc = r.exc,
                                 !.type = IF r.exc = "none" THEN "list" ELSE "NoneType",
                                 !.chunks = r.chunks, !.files = <<source_path>>]
    /\ UNCHANGED <<chat_loop, module, api_key, persist_directory, collection, embeddings,
                   vectorstore, qa_chain, session, hist>>

\* The lines typed at the prompt of chat_loop: the commands in several
\* cases and with blanks around them, empty lines, and questions, some of
\* which begin like a command.
Lines ==
    {<<>>, <<" ", " ">>,
     <<"q", "u", "i", "t">>, <<"E", "x", "i", "t">>, <<" ", "B", "Y", "E", " ">>,
     <<"h", "e", "l", "p">>, <<"H", "E", "L", "P", " ">>,
     <<"s", "o", "u", "r", "c", "e", "s">>, <<"S", "o", "u", "r", "c", "e", "s">>,
     <<"a", "?">>, <<" ", "b", "?">>, <<"A", " ", "b">>,
     <<"h", "e", "l", "p", "s">>, <<"q", "u", "i", "t", " ", "i", "t">>}

\* What input() can give: a line, Ctrl-C, or the end of the input.
CliInputs ==
    {[exc |-> "none", line |-> line] : line \in Lines}
        \cup {[exc |-> e, line |-> <<>>] : e \in {"KeyboardInterrupt", "EOFError"}}

\* python cli_chat.py <document_path>: a new process; load_dotenv reads the
\* key anew. The loop starts when main did not exit.
CliMain ==
    /\ module = "vector_store"
    /\ ~chat_loop.running
    /\ \E key \in BOOLEAN, document_path \in SourcePath, embedOK \in BOOLEAN :
        LET m == cli_main([W EXCEPT !.embeddings = "none", !.vectorstore = "NoInstance"],
                          key, document_path, embedOK)
        IN  /\ Len(m.w.coll.entries) <= MaxIndexed
            /\ SetWorld(m.w)
            /\ api_key' = key
            /\ qa_chain' = m.qa_chain
            /\ chat_loop' = [NoChatLoop EXCEPT !.running = (m.exit = "none")]
            /\ ret' = [NoRet EXCEPT !.op = "main", !.exc = m.exit,
                                    !.files = <<document_path>>]
    /\ UNCHANGED <<module, session, hist>>

\* One pass of the while loop of chat_loop
ChatLoopPass ==
    /\ chat_loop.running
    /\ \E in \in CliInputs, embedOK \in EmbedOutcomes(embeddings), llm \in LLMOutcomes :
        \E o \in chat_loop_pass(W, qa_chain, chat_loop.last_result, in, embedOK, llm) :
            /\ chat_loop' = [running |-> o.running, last_result |-> o.last_result,
                             recent |-> IF o.query # 0 THEN <<o.dict>>
                                        ELSE chat_loop.recent]
            /\ ret' = [NoRet EXCEPT !.op = "chat_loop", !.input = in,
                                    !.query = o.query, !.dict = o.dict,
                                    !.type = IF o.query # 0 THEN "dict" ELSE "NoneType",
                                    !.text = [NoText EXCEPT !.kind = o.printed,
                                                            !.parts = o.sources]]
    /\ UNCHANGED <<module, api_key, persist_directory, collection, embeddings,
                   vectorstore, qa_chain, session, hist>>

\* The documents a caller can hand to split_documents.
Texts == SeqsUpTo(Char, MaxTextLen)

Documents ==
    {<<text>> : text \in Texts}
        \cup {docs \in [1..MaxDocs -> Texts] :
                Len(Flatten(docs)) <= MaxTextLen}

\* DocumentProcessor(chunk_size, chunk_overlap) built and documents loaded.
InitSplit ==
    /\ InitProcess
    /\ \E chunk_size \in 1..MaxChunkSize, documents \in Documents :
        \E chunk_overlap \in 0..(chunk_size - 1) :
            ret = [NoRet EXCEPT !.op = "DocumentProcessor",
                                !.documents = documents,
                                !.chunk_size = chunk_size,
                                !.chunk_overlap = chunk_overlap]

\* processor.split_documents(documents)
SplitDocuments ==
    /\ ret.op \in {"DocumentProcessor", "split_documents"}
    /\ ret' = [ret EXCEPT
                  !.op = "split_documents", !.type = "list",
                  !.chunks = text_splitter_split_documents(
                                 ret.documents, ret.chunk_size, ret.chunk_overlap)]
    /\ UNCHANGED <<chat_loop, module, api_key, persist_directory, collection, embeddings,
                   vectorstore, qa_chain, session, hist>>

Next ==
    \/ Construct
    \/ ConstructFree
    \/ AddDocuments
    \/ AddDocumentsFree
    \/ SimilaritySearch
    \/ SimilaritySearchFree
    \/ GetRetriever
    \/ DeleteCollection
    \/ DeleteCollectionFree
    \/ Restart

Spec == Init /\ [][Next]_vars

\* ------------------------------------------------------------ properties

\* C1: add_documents with an empty list raises ValueError and leaves the
\* instance, the directory and the collection as they were; no collection
\* is created.
C1_EmptyAddRaisesAndTouchesNothing ==
    [][(ret'.op = "add_documents" /\ ret'.docs = <<>>)
        => /\ ret'.exc = "ValueError"
           /\ UNCHANGED <<embeddings, vectorstore, persist_directory, collection>>]_vars

C1_Witness ==
    /\ ret.op = "add_documents"
    /\ ret.docs = <<>>
    /\ ret.exc = "ValueError"
    /\ collection.exists
    /\ collection.entries # <<>>

\* C2: once delete_collection has returned, every similarity_search on the
\* same instance returns the empty list and does not raise, until the next
\* add_documents.
C2_SearchAfterDeleteIsEmpty ==
    (hist.afterDelete /\ ret.op = "similarity_search")
        => (ret.exc = "none" /\ ret.val = <<>>)

C2_Witness ==
    /\ hist.afterDelete
    /\ hist.writes > 0
    /\ ret.op = "similarity_search"
    /\ ret.val = <<>>
    /\ module = "vector_store"

\* C3: delete_collection does not raise and leaves neither the collection
\* nor the database that held it under persist_directory.
C3_DeleteRemovesEverything ==
    ret.op = "delete_collection"
        => /\ ret.exc = "none"
           /\ ~collection.exists
           /\ persist_directory # "db"

\* C4: what a completed add_documents wrote is there after a restart: a new
\* VectorStore of the same class and provider answers every query and k as
\* the instance that added did, and answers it in one way only.
C4_ReopenGivesSameAnswers ==
    (/\ hist.snap.valid
     /\ hist.snap.reopened
     /\ vectorstore # "NoInstance"
     /\ embeddings = hist.snap.emb
     /\ embeddings # "FakeEmbeddings")
        => /\ Answers(W) = hist.snap.res
           /\ \A q \in Query, kArg \in KArgs : Cardinality(Answers(W)[q, kArg]) = 1

C4_Witness ==
    /\ hist.snap.valid
    /\ hist.snap.reopened
    /\ module = "vector_store"
    /\ vectorstore = "Chroma"
    /\ embeddings = hist.snap.emb
    /\ Len(collection.entries) >= 2
    /\ ret.op = "similarity_search"
    /\ Len(ret.val) >= 2

\* C5: a store constructed over a directory that exists without valid
\* collection data answers a search with the empty list, and its first
\* add_documents creates the collection with exactly the added chunks.
C5_InvalidDirectoryBehavesEmpty ==
    /\ (/\ hist.opened \in {"empty", "corrupt"}
        /\ hist.writes = 0
        /\ ret.op = "similarity_search"
        /\ ~ret.indexRaised)
           => (ret.exc = "none" /\ ret.val = <<>>)
    /\ (/\ hist.opened \in {"empty", "corrupt"}
        /\ hist.writes = 1
        /\ ret.op = "add_documents"
        /\ ret.docs # <<>>
        /\ ret.exc # "EmbeddingError")
           => /\ ret.exc = "none"
              /\ collection.exists
              /\ collection.entries = ret.docs

\* C6: similarity_search returns min(k, n) entries of a collection of n,
\* with k = 4 when the caller gives none.
C6_SearchReturnsMinKN ==
    (ret.op = "similarity_search" /\ ret.exc = "none")
        => Len(ret.val) = Min(ret.k, Len(collection.entries))

\* C9: when the index raises during add_documents or similarity_search the
\* call raises to its caller.
C9_IndexErrorsPropagate ==
    (ret.op \in {"add_documents", "similarity_search"} /\ ret.indexRaised)
        => ret.exc # "none"

\* The store with a RAGChain over it.
NextChain == Next \/ RAGChainInit \/ RAGChainQuery

SpecChain == Init /\ [][NextChain]_vars

\* C7: query never raises. When the chain fails it returns success = False,
\* a non-empty answer and no source documents; when it does not, success =
\* True, the answer of the provider and the chunks retrieved.
C7_QueryNeverRaises ==
    ret.op = "query"
        => /\ ret.exc = "none"
           /\ ret.type = "dict"
           /\ ret.indexRaised
                => /\ ret.dict.success = FALSE
                   /\ ret.dict.answer # <<>>
                   /\ ret.dict.source_documents = <<>>
           /\ ~ret.indexRaised
                => /\ ret.dict.success = TRUE
                   /\ ret.dict.answer = <<"answer", ret.query>>
                   /\ ret.dict.source_documents
                        = IF collection.exists
                          THEN TopK(collection.entries, ret.query, DefaultK)
                          ELSE <<>>

C7_Witness ==
    /\ ret.op = "query"
    /\ ret.indexRaised
    /\ ret.dict.success = FALSE
    /\ collection.exists
    /\ collection.entries # <<>>
    /\ collection.dim = Dim(embeddings)

\* The store of the free module with simple_rag_response over it.
NextRetrieval == Next \/ SimpleRagResponse

SpecRetrieval == Init /\ [][NextRetrieval]_vars

InitLocal == Init /\ module = "vector_store_completely_free"

NextLocal ==
    \/ ProcessDocumentsLocal
    \/ ChatInputLocal
    \/ ClearChatLocal
    \/ ResetSystemLocal
    \/ RestartLocal

SpecLocal == InitLocal /\ [][NextLocal]_vars

\* The files of a batch that fail at ingestion: an unsupported format, or
\* nothing to extract.
FailsIngestion(file) ==
    LET r == DocumentProcessor_process_documents(file)
    IN  r.exc # "none" \/ r.chunks = <<>>

\* The chunks of the files of a batch that do not fail, in batch order.
GoodChunks(files) ==
    Flatten([i \in 1..Len(files) |->
                IF FailsIngestion(files[i]) THEN <<>>
                ELSE DocumentProcessor_process_documents(files[i]).chunks])

\* C10: when a file of a batch fails at ingestion the chunks of the other
\* files are indexed all the same, and each failure is reported with its
\* file.
C10_OneBadFileDoesNotAbortBatch ==
    (/\ ret.op = "process_documents"
     /\ ~ret.indexRaised
     /\ \E i \in 1..Len(ret.files) : FailsIngestion(ret.files[i])
     /\ \E i \in 1..Len(ret.files) : ~FailsIngestion(ret.files[i]))
        => /\ ret.docs = GoodChunks(ret.files)
           /\ \A i \in 1..Len(ret.files) :
                FailsIngestion(ret.files[i])
                    => \E j \in 1..Len(ret.errors) :
                            ret.errors[j].file = ret.files[i].name

\* C11: the first batch fixes the dimension of a collection. An
\* add_documents through a provider of another dimension fails, with the
\* dimension mismatch of the index whenever the provider did embed the
\* batch, and appends nothing; while a collection holds entries its
\* dimension never changes.
C11_DimensionFixedByFirstBatch ==
    [][/\ (/\ ret'.op = "add_documents"
           /\ ret'.docs # <<>>
           /\ collection.entries # <<>>
           /\ collection.dim # Dim(embeddings))
              => /\ ret'.exc \in {"InvalidDimensionException", "EmbeddingError"}
                 /\ ret'.exc = "EmbeddingError" => embeddings = "OpenAIEmbeddings"
                 /\ collection' = collection
       /\ (collection.entries # <<>> /\ collection'.entries # <<>>)
              => collection'.dim = collection.dim]_vars

C11_Witness ==
    /\ ret.op = "add_documents"
    /\ ret.exc = "InvalidDimensionException"
    /\ module = "vector_store"
    /\ embeddings = "SentenceTransformerEmbeddings"
    /\ collection.dim = OpenAIDim
    /\ collection.entries # <<>>

\* DocumentProcessor.split_documents on its own.
SpecSplit == InitSplit /\ [][SplitDocuments]_vars

\* The chunks of document d among those returned, in emission order.
ChunksOf(chunks, d) == SelectSeq(chunks, LAMBDA c : c.document = d)

\* C12: every chunk is at most chunk_size long; of two chunks that follow
\* each other from the same document the last chunk_overlap characters of
\* the first are the first chunk_overlap characters of the second; chunks
\* come out in the order of their documents.
C12_ChunksBoundedAndOverlapping ==
    ret.op = "split_documents"
        => /\ \A i \in 1..Len(ret.chunks) :
                Len(ret.chunks[i].page_content) <= ret.chunk_size
           /\ \A d \in 1..Len(ret.documents) :
                LET cs == ChunksOf(ret.chunks, d)
                IN  \A i \in 1..(Len(cs) - 1) :
                        LET first == cs[i].page_content
                            second == cs[i + 1].page_content
                            O == ret.chunk_overlap
                        IN  (Len(first) >= O /\ Len(second) >= O)
                                => SubSeq(first, Len(first) - O + 1, Len(first))
                                     = SubSeq(second, 1, O)
           /\ \A i, j \in 1..Len(ret.chunks) :
                i < j => ret.chunks[i].document <= ret.chunks[j].document

\* C13: get_retriever on a store without a collection raises, RAGChain
\* over such a store cannot be constructed, and no RAGChain exists whose
\* retriever is bound to a collection that is not there.
C13_NoChainOverMissingCollection ==
    /\ (ret.op = "get_retriever" /\ vectorstore = "None")
            => (ret.exc = "ValueError" /\ ret.type # "retriever")
    /\ (ret.op = "RAGChain" /\ vectorstore = "None")
            => (ret.exc = "ValueError" /\ ~qa_chain.bound)
    /\ qa_chain.bound => collection.exists

\* The chunks a chat input returned to the user: the source documents of
\* the dict in app.py, the chunks previewed in the text in app_local.py.
Retrieved(r) ==
    IF r.type = "dict" THEN r.dict.source_documents
    ELSE [i \in 1..Len(r.text.parts) |-> r.text.parts[i].chunk]

\* C14: right after reset_system the message list is empty, and from then
\* on, in this session or a later one, a chat input returns only chunks
\* that were indexed after the reset.
C14_ResetClearsDocumentsAndHistory ==
    /\ ret.op = "reset_system" => session.messages = <<>>
    /\ (hist.reset /\ ret.op = "chat_input")
            => \A i \in 1..Len(Retrieved(ret)) : Retrieved(ret)[i] \in hist.since

\* C15: when the search retrieves at least one chunk, simple_rag_response
\* returns one preview per chunk retrieved, in the order of the ranking:
\* the first 500 characters of the chunk, marked with "..." exactly when
\* the chunk is longer; the text ends with the note that nothing was
\* generated.
C15_PreviewsInRankOrder ==
    (/\ ret.op = "simple_rag_response"
     /\ vectorstore = "Chroma"
     /\ collection.entries # <<>>
     /\ collection.dim = Dim(embeddings))
        => /\ ret.text.kind = "context"
           /\ ret.text.note
           /\ Len(ret.text.parts) = Min(ret.k, Len(collection.entries))
           /\ \E r \in Chroma_similarity_search(collection, embeddings, TRUE,
                                                ret.query, ret.k) :
                r.docs = [i \in 1..Len(ret.text.parts) |-> ret.text.parts[i].chunk]
           /\ \A i \in 1..Len(ret.text.parts) :
                LET part == ret.text.parts[i]
                IN  /\ part.source = i
                    /\ part.shown = Min(ContentLen[part.chunk], 500)
                    /\ part.ellipsis <=> ContentLen[part.chunk] > 500

C15_Witness ==
    /\ ret.op = "simple_rag_response"
    /\ embeddings = "HuggingFaceEmbeddings"
    /\ ret.text.kind = "context"
    /\ Len(ret.text.parts) >= 2
    /\ ret.text.parts[1].ellipsis
    /\ ~ret.text.parts[2].ellipsis

\* The two Streamlit applications, app.py and app_local.py, one at a time
\* over the directory the earlier left.
NextApps ==
    \/ ProcessDocumentsApp
    \/ ResetSystemApp
    \/ ChatInputApp
    \/ ClearChatApp
    \/ ProcessDocumentsLocalUploads
    \/ ResetSystemLocal
    \/ ChatInputLocal
    \/ ClearChatLocal
    \/ RestartApps

SpecApps == Init /\ [][NextApps]_vars

\* C16: in both applications every chunk shown for a chat input comes
\* with the source field of its metadata beside its preview.
C16_SourceShownWithEveryChunk ==
    ret.op = "chat_input"
        => \A i \in 1..Len(ret.shown) :
                /\ "from" \in DOMAIN ret.shown[i]
                /\ ret.shown[i].from = MetadataSource[ret.shown[i].chunk]

\* DocumentProcessor with its loaders.
NextProcessor == LoadDocuments \/ ProcessPath

SpecProcessor == Init /\ [][NextProcessor]_vars

\* C17: load_documents on a file whose extension is neither .pdf nor .txt
\* raises ValueError and returns no documents; process_documents on such a
\* file, or on a path that is neither a file nor a directory, raises and
\* gives no chunks.
C17_UnsupportedFormatGivesNothing ==
    /\ (ret.op = "load_documents" /\ ret.files[1].suffix \notin {".pdf", ".txt"})
            => (ret.exc = "ValueError" /\ ret.type = "NoneType" /\ ret.val = <<>>)
    /\ (/\ ret.op = "DocumentProcessor.process_documents"
        /\ \/ ret.files[1].kind = "missing"
           \/ (ret.files[1].kind = "file"
                 /\ ret.files[1].suffix \notin {".pdf", ".txt"}))
            => (ret.exc = "ValueError" /\ ret.type = "NoneType" /\ ret.chunks = <<>>)

C17_Witness ==
    /\ ret.op = "DocumentProcessor.process_documents"
    /\ ret.files[1].kind = "file"
    /\ ret.files[1].suffix = ".md"
    /\ ret.exc = "ValueError"

\* C18: in every state of a session documents_processed = True implies
\* that the handle queries go to is set, rag_chain in app.py and
\* vector_store in app_local.py; no chat input meets a handle that is None.
C18_ProcessedImpliesHandle ==
    /\ session.documents_processed
            => IF module = "vector_store"
               THEN session.rag_chain /\ qa_chain.bound
               ELSE session.vector_store /\ vectorstore # "NoInstance"
    /\ ret.op = "chat_input"
            => /\ ret.exc # "AttributeError"
               /\ ret.type = "str" => ret.text.kind # "error"

C18_Witness ==
    /\ module = "vector_store"
    /\ hist.reset
    /\ ret.op = "process_documents"
    /\ ret.n = 0
    /\ session.documents_processed
    /\ session.rag_chain

\* C19: a process_documents of app.py that returns 0 leaves the entries of
\* the persisted collection, rag_chain and documents_processed as they
\* were before the call.
C19_FailedProcessChangesNothing ==
    [][(ret'.op = "process_documents" /\ module = "vector_store" /\ ret'.n = 0)
        => /\ collection'.entries = collection.entries
           /\ session'.rag_chain = session.rag_chain
           /\ qa_chain' = qa_chain
           /\ session'.documents_processed = session.documents_processed]_vars

C19_Witness ==
    /\ module = "vector_store"
    /\ ret.op = "process_documents"
    /\ ret.n = 0
    /\ ret.indexRaised
    /\ collection.entries # <<>>
    /\ session.documents_processed

\* C20: a chat input of app.py appends exactly two messages to the
\* history, the user's and then one of the assistant, which carries the
\* answer and the source documents of a query that succeeded, the error
\* text and no sources of one that failed; after every step the history of
\* either application alternates user, assistant from the first message
\* and its length is even.
C20_HistoryAlternates ==
    [][/\ (ret'.op = "chat_input" /\ module = "vector_store")
            => LET n == Len(session.messages)
                   new == session'.messages
               IN  /\ Len(new) = n + 2
                   /\ SubSeq(new, 1, n) = session.messages
                   /\ new[n + 1] = [role |-> "user",
                                    content |-> <<"prompt", ret'.query>>]
                   /\ new[n + 2].role = "assistant"
                   /\ new[n + 2].content = ret'.dict.answer
                   /\ ret'.dict.success
                        => new[n + 2].sources = ret'.dict.source_documents
                   /\ ~ret'.dict.success
                        => /\ new[n + 2].sources = <<>>
                           /\ new[n + 2].content[1] = "Error processing query: "
       /\ Len(session'.messages) % 2 = 0
       /\ \A i \in 1..Len(session'.messages) :
            session'.messages[i].role = IF i % 2 = 1 THEN "user" ELSE "assistant"]_vars

C20_Witness ==
    /\ module = "vector_store"
    /\ ret.op = "chat_input"
    /\ ~ret.dict.success
    /\ Len(session.messages) = 4
    /\ session.messages[2].sources # <<>>
    /\ session.messages[4].sources = <<>>

\* cli_chat.py: runs of the program, each with its chat loop.
InitCli == Init /\ module = "vector_store"

NextCli == CliMain \/ ChatLoopPass

SpecCli == InitCli /\ [][NextCli]_vars

\* The line typed, without the blanks around it and in lower case.
Word(in) == lower(Strip(in.line))

\* C21: in a pass of the chat loop, 'help', 'sources', the empty line and
\* 'quit', 'exit', 'bye', in any case, do not call rag_chain.query and leave
\* last_result as it was; last_result changes only to what the query of
\* this pass returned, so it is always what the latest query returned; and
\* 'sources' prints the source documents of the latest query, in order, or
\* that none are available when there was no query, when it failed, or
\* when it retrieved nothing.
C21_CommandsKeepLastResult ==
    [][(chat_loop.running /\ ret'.op = "chat_loop")
        => /\ ( /\ ret'.input.exc = "none"
                /\ \/ Word(ret'.input) \in QuitWords \cup {HelpWord, SourcesWord}
                   \/ Word(ret'.input) = <<>> )
              => /\ ret'.query = 0
                 /\ chat_loop'.last_result = chat_loop.last_result
           /\ chat_loop'.last_result # chat_loop.last_result
              => /\ ret'.query # 0
                 /\ chat_loop'.last_result = <<ret'.dict>>
           /\ chat_loop'.last_result = chat_loop'.recent
           /\ (ret'.input.exc = "none" /\ Word(ret'.input) = SourcesWord)
              => IF /\ chat_loop.recent # <<>>
                    /\ chat_loop.recent[1].success
                    /\ chat_loop.recent[1].source_documents # <<>>
                 THEN /\ ret'.text.kind = "sources"
                      /\ [i \in 1..Len(ret'.text.parts) |-> ret'.text.parts[i].chunk]
                            = chat_loop.recent[1].source_documents
                 ELSE /\ ret'.text.kind = "No sources available"
                      /\ ret'.text.parts = <<>>]_vars

\* 'Sources' typed after a query that failed, itself after one that had
\* retrieved two chunks: none are reported.
C21_Witness ==
    /\ ret.op = "chat_loop"
    /\ ret.input.line = <<"S", "o", "u", "r", "c", "e", "s">>
    /\ ret.text.kind = "No sources available"
    /\ chat_loop.last_result # <<>>
    /\ ~chat_loop.last_result[1].success
    /\ Len(collection.entries) = 2

====
